---- MODULE Spec2Model ----
(***************************************************************************)
(* Model of the meal-advisor application: the express/better-sqlite3       *)
(* server (src/unnamed/part_000), the advisory client                      *)
(* (src/src/services/geminiService.ts) and the React component             *)
(* (src/src/App.tsx).                                                      *)
(*                                                                         *)
(* Optional JavaScript values (undefined, null, SQL NULL) are sequences of *)
(* length 0 or 1: Absent is <<>>, a present value v is <<v>>.  Text that   *)
(* the source writes in Korean is written in ASCII here.                   *)
(***************************************************************************)
EXTENDS Naturals, Sequences, FiniteSets, TLC

(* ------------------------------ bounds -------------------------------- *)

\* seconds the wall clock can advance (CURRENT_TIMESTAMP has 1 s resolution)
MaxClock == 1
\* POST /api/logs calls of the log-store specification (beyond the LIMIT)
MaxStoreLogs == 52
\* POST /api/profile calls of the profile-store specification
MaxSaves == 3
\* capture attempts (handleImageUpload with a file) the user sees through
MaxCaptures == 1
\* captures pending together
MaxPending == 2
\* captures pending together in the whole-application specification
AppPending == 1
\* getDailyRecommendation calls in flight together in the whole-application
\* specification
AppRecs == 1
\* getDailyRecommendation calls in flight together
MaxRecs == 2
\* submissions of the profile form
MaxProfileSaves == 1

(* ------------------------- program constants -------------------------- *)

\* LIMIT 50 of GET /api/logs
LogLimit == 50
\* logs.slice(0, 5) of fetchRecommendation
RecSlice == 5
\* the fixed primary key of user_profile: CHECK (id = 1), VALUES (1, ?, ?)
ProfileId == 1
\* the limit of express.json, in megabytes
BodyLimit == 10

(* --------------------------- optional values -------------------------- *)

Absent == <<>>

Some(v) == <<v>>

\* JavaScript truthiness of an optional number: undefined, null and 0 are falsy
TruthyNum(o) == o # Absent /\ o[1] # 0

\* JavaScript truthiness of an optional string: undefined, null and "" are falsy
TruthyStr(o) == o # Absent /\ o[1] # ""

\* JavaScript truthiness of an optional boolean
TruthyBool(o) == o # Absent /\ o[1] = TRUE

(* ------------------------------- state -------------------------------- *)

VARIABLES
  \* server (src/unnamed/part_000)
  user_profile,   \* table user_profile: a set of rows [id, age, condition]
  food_logs,      \* table food_logs: rows in rowid order
  clock,          \* CURRENT_TIMESTAMP, in seconds, at the latest insert
  \* a bare HTTP client of the store specifications
  lastResponse,   \* the latest HTTP exchange: [op, body]
  saved,          \* history: the bodies of the POST /api/profile calls so far
  \* React state of App (src/src/App.tsx)
  activeTab, profile, logs, recommendation, loading, analysisResult,
  alerts,         \* the alert() messages raised so far
  pressIgnored,   \* history: the latest camera press found no file input
  mountedView,    \* the child <AnimatePresence mode="wait"> keeps mounted:
                  \* [view, profile], the profile its handlers close over
  \* requests in flight
  captures,       \* handleImageUpload invocations past the profile check
  nCaptures,      \* history: capture attempts that have ended
  nSaves,         \* history: submissions of the profile form
  profileFetch,   \* the fetchProfile() of the mount effect
  logsFetches,    \* fetchLogs() calls
  profileSaves,   \* handleProfileSave calls awaiting their POST
  recRequests     \* getDailyRecommendation calls

serverVars == <<user_profile, food_logs, clock>>

httpVars == <<lastResponse, saved>>

uiVars == <<activeTab, profile, logs, recommendation, loading, analysisResult, alerts,
            pressIgnored, mountedView>>

flightVars == <<captures, nCaptures, nSaves, profileFetch, logsFetches, profileSaves, recRequests>>

vars == <<serverVars, httpVars, uiVars, flightVars>>

(* ------------------------------ server -------------------------------- *)

\* res.json(profile || {}) when no row exists
EmptyObject == [id |-> Absent, age |-> Absent, condition |-> Absent]

ProfileRow(age, condition) == [id |-> Some(ProfileId), age |-> age, condition |-> condition]

\* SELECT * FROM user_profile WHERE id = 1; res.json(profile || {})
GetProfile(table) ==
  IF \E r \in table : r.id = Some(ProfileId)
    THEN CHOOSE r \in table : r.id = Some(ProfileId)
    ELSE EmptyObject

\* the upsert with "DO UPDATE SET age = excluded.age" alone
UpsertProfileAgeOnly(table, age, condition) ==
  IF \E r \in table : r.id = Some(ProfileId)
    THEN { IF r.id = Some(ProfileId) THEN [r EXCEPT !.age = age] ELSE r : r \in table }
    ELSE table \cup {ProfileRow(age, condition)}

\* INSERT ... VALUES (1, ?, ?) ON CONFLICT(id) DO UPDATE SET age, condition
UpsertProfile(table, age, condition) ==
  IF \E r \in table : r.id = Some(ProfileId)
    THEN { IF r.id = Some(ProfileId)
             THEN [r EXCEPT !.age = age, !.condition = condition]
             ELSE r : r \in table }
    ELSE table \cup {ProfileRow(age, condition)}

RECURSIVE MaxId(_)
MaxId(rows) ==
  IF rows = <<>> THEN 0
  ELSE LET m == MaxId(Tail(rows)) IN IF Head(rows).id > m THEN Head(rows).id ELSE m

\* an id column that hands out the largest id in use again
NextLogIdReused(rows) == IF rows = <<>> THEN 1 ELSE MaxId(rows)

\* INTEGER PRIMARY KEY AUTOINCREMENT: one more than the largest id ever used
\* (rows are never deleted, so that is the largest id in the table)
NextLogId(rows) == MaxId(rows) + 1

\* the insert as INSERT OR REPLACE under the id of the newest row
InsertLogOverwrite(rows, body, now) ==
  IF rows = <<>> THEN <<[id |-> 1, image_url |-> body.image_url, food_name |-> body.food_name,
                         analysis |-> body.analysis,
                         is_safe |-> IF TruthyBool(body.is_safe) THEN 1 ELSE 0,
                         created_at |-> now]>>
  ELSE [rows EXCEPT ![Len(rows)] =
          [id |-> MaxId(rows), image_url |-> body.image_url, food_name |-> body.food_name,
           analysis |-> body.analysis,
           is_safe |-> IF TruthyBool(body.is_safe) THEN 1 ELSE 0,
           created_at |-> now]]

\* INSERT INTO food_logs (image_url, food_name, analysis, is_safe) VALUES (?, ?, ?, ?)
\* with is_safe ? 1 : 0, an undefined field bound as NULL, and created_at
\* defaulting to CURRENT_TIMESTAMP
InsertLog(rows, body, now) ==
  Append(rows, [id         |-> NextLogId(rows),
                image_url  |-> body.image_url,
                food_name  |-> body.food_name,
                analysis   |-> body.analysis,
                is_safe    |-> IF TruthyBool(body.is_safe) THEN 1 ELSE 0,
                created_at |-> now])

\* The sorter of ORDER BY created_at DESC: rows enter in table-scan (rowid)
\* order and a row is placed after every row whose created_at is not smaller,
\* so rows of the same second keep their scan order.
RECURSIVE SorterInsert(_, _)
SorterInsert(sorted, row) ==
  IF sorted = <<>> THEN <<row>>
  ELSE IF Head(sorted).created_at >= row.created_at
         THEN <<Head(sorted)>> \o SorterInsert(Tail(sorted), row)
         ELSE <<row>> \o sorted

RECURSIVE OrderByCreatedAtDesc(_)
OrderByCreatedAtDesc(rows) ==
  IF rows = <<>> THEN <<>>
  ELSE SorterInsert(OrderByCreatedAtDesc(SubSeq(rows, 1, Len(rows) - 1)), rows[Len(rows)])

Limit(rows, n) == IF Len(rows) <= n THEN rows ELSE SubSeq(rows, 1, n)

\* SELECT * FROM food_logs ORDER BY created_at DESC LIMIT 50
SelectRecentLogs(rows) == Limit(OrderByCreatedAtDesc(rows), LogLimit)

(* ------------------------------- inputs ------------------------------- *)

\* the decade buttons of renderProfile (one of the four)
Ages == {70}

\* the condition buttons of renderProfile (one of the four)
Conditions == {"diabetes"}

\* request bodies of a bare POST /api/profile: any age and condition, also
\* outside the buttons' values, and fields left out
ApiAges == {Absent, Some(0), Some(60), Some(70)}

ApiConditions == {Absent, Some("diabetes"), Some("hypertension")}

\* the request body of a bare POST /api/logs
ApiLogBody == [image_url |-> Some("data:image/jpeg;base64,meal1"),
               food_name |-> Some("rice"),
               analysis  |-> Some("fine\n\nTip: chew"),
               is_safe   |-> Some(TRUE)]

(* --------------------------- initial state ---------------------------- *)

NoFetch == [pc |-> "req", data |-> <<>>]

NoResponse == [op |-> "none", body |-> <<>>]

\* the component as mounted: the useState defaults, and the mount effect has
\* called fetchProfile() and fetchLogs()
Mounted ==
  /\ activeTab = "home"
  /\ profile = EmptyObject
  /\ logs = <<>>
  /\ recommendation = Absent
  /\ loading = FALSE
  /\ analysisResult = Absent
  /\ alerts = <<>>
  /\ pressIgnored = FALSE
  /\ mountedView = [view |-> "home", profile |-> EmptyObject]
  /\ captures = <<>>
  /\ nCaptures = 0
  /\ nSaves = 0
  /\ profileFetch = NoFetch
  /\ logsFetches = <<NoFetch>>
  /\ profileSaves = <<>>
  /\ recRequests = <<>>

\* a first start: CREATE TABLE IF NOT EXISTS on a new database file
InitFresh ==
  /\ user_profile = {}
  /\ food_logs = <<>>
  /\ clock = 0
  /\ lastResponse = NoResponse
  /\ saved = <<>>
  /\ Mounted

\* what an earlier session can have left in diabetes_app.db: a saved profile,
\* a logged meal
EarlierProfiles == { {}, UpsertProfile({}, Some(70), Some("diabetes")) }

EarlierLogs ==
  { <<>>,
    InsertLog(<<>>, [image_url |-> Some("data:image/jpeg;base64,meal0"),
                     food_name |-> Some("rice"),
                     analysis  |-> Some("fine\n\nTip: chew"),
                     is_safe   |-> Some(TRUE)], 0) }

\* a start on the database file as an earlier session left it
Init ==
  /\ user_profile \in EarlierProfiles
  /\ food_logs \in EarlierLogs
  /\ clock = 0
  /\ lastResponse = NoResponse
  /\ saved = <<>>
  /\ Mounted

\* the values CURRENT_TIMESTAMP can have at the next insert: the seconds that
\* pass between two inserts show in nothing but the later created_at
Now == clock..MaxClock

(* --------------- the HTTP API, called by a bare client ---------------- *)

\* POST /api/profile with body {age, condition}
ApiPostProfile(age, condition) ==
  /\ Len(saved) < MaxSaves
  /\ user_profile' = UpsertProfile(user_profile, age, condition)
  /\ saved' = Append(saved, [age |-> age, condition |-> condition])
  /\ lastResponse' = [op |-> "postProfile", body |-> <<>>]
  /\ UNCHANGED <<food_logs, clock, uiVars, flightVars>>

\* GET /api/profile
ApiGetProfile ==
  /\ lastResponse' = [op |-> "getProfile", body |-> GetProfile(user_profile)]
  /\ UNCHANGED <<serverVars, saved, uiVars, flightVars>>

\* POST /api/logs
ApiPostLogs(body, now) ==
  /\ Len(food_logs) < MaxStoreLogs
  /\ food_logs' = InsertLog(food_logs, body, now)
  /\ clock' = now
  /\ lastResponse' = [op |-> "postLogs", body |-> <<>>]
  /\ UNCHANGED <<user_profile, saved, uiVars, flightVars>>

\* GET /api/logs
ApiGetLogs ==
  /\ lastResponse' = [op |-> "getLogs", body |-> SelectRecentLogs(food_logs)]
  /\ UNCHANGED <<serverVars, saved, uiVars, flightVars>>

NextProfile ==
  \/ \E age \in ApiAges, condition \in ApiConditions : ApiPostProfile(age, condition)
  \/ ApiGetProfile

\* the profile store under any sequence of API calls
SpecProfile == InitFresh /\ [][NextProfile]_vars

NextLogs ==
  \/ \E now \in Now : ApiPostLogs(ApiLogBody, now)
  \/ ApiGetLogs

\* the food log store under any order and timing of API calls
SpecLogs == InitFresh /\ [][NextLogs]_vars

(* ------------------------- advisory provider -------------------------- *)

\* the images the user can photograph: meal2 is a photo of full resolution
Files == {"meal1", "meal2"}

\* the size in megabytes of the POST /api/logs body that carries the data URL
\* of the file
BodyMb(file) == IF file = "meal2" THEN 12 ELSE 2

\* app.use(express.json({ limit: '10mb' })): a larger body is answered with
\* 413 by the body parser and the route handler does not run
TooLarge(file) == BodyMb(file) > BodyLimit

\* FileReader.readAsDataURL on a readable file
DataURL(file) == "data:image/jpeg;base64," \o file

\* a value JSON.parse returns, by what the application reads of it: its four
\* properties (undefined when the value has none) and its truthiness
Verdict(foodName, isSafe, analysis, tips) ==
  [foodName |-> foodName, isSafe |-> isSafe, analysis |-> analysis, tips |-> tips,
   truthy |-> TRUE]

\* JSON objects carrying the four fields the responseSchema requires
WellFormedVerdicts ==
  { Verdict(Some("rice"), Some(safe), Some("fine"), Some("chew")) : safe \in BOOLEAN }

\* JSON objects the provider may answer with a required field left out
MalformedVerdicts ==
  { Verdict(Some("rice"), Absent, Some("fine"), Some("chew")) }

\* JSON texts that are no object but a falsy value (false, 0, ""): reading
\* a property of the value gives undefined
FalsyVerdicts ==
  { [foodName |-> Absent, isSafe |-> Absent, analysis |-> Absent, tips |-> Absent,
     truthy |-> FALSE] }

\* the "{}" that stands in for a response without text
EmptyObjectVerdict == Verdict(Absent, Absent, Absent, Absent)

\* what JSON.parse(response.text || "{}") of analyzeFoodImage can return for
\* a response with a text,
\* without a throw in the code that reads it (the text "null" parses, and
\* result.foodName then throws: the step AnalyzeReturnNull)
ProviderVerdicts == WellFormedVerdicts \cup MalformedVerdicts \cup FalsyVerdicts

IsWellFormed(v) ==
  v.foodName # Absent /\ v.isSafe # Absent /\ v.analysis # Absent /\ v.tips # Absent

(* ------------------------------ App.tsx ------------------------------- *)

AlertNeedProfile == "enter your age and condition in My Info first"

AlertAnalysisError == "an error occurred during analysis"

Remove(s, i) == SubSeq(s, 1, i - 1) \o SubSeq(s, i + 1, Len(s))

\* string concatenation with an undefined operand
Str(o) == IF o = Absent THEN "undefined" ELSE o[1]

\* the body with "analysis: result.analysis", the tip not appended
LogBodyNoTip(base64, result) ==
  [image_url |-> Some(base64),
   food_name |-> result.foodName,
   analysis  |-> Some(Str(result.analysis)),
   is_safe   |-> result.isSafe]

\* the JSON body of the POST /api/logs of handleImageUpload; JSON.stringify
\* leaves out an undefined field
LogBody(base64, result) ==
  [image_url |-> Some(base64),
   food_name |-> result.foodName,
   analysis  |-> Some(Str(result.analysis) \o "\n\nTip: " \o Str(result.tips)),
   is_safe   |-> result.isSafe]

\* the effect's condition without "logs.length > 0"
RecGuardAgeOnly(p, l) == TruthyNum(p.age)

\* the condition of the effect on [profile, logs]
RecGuard(p, l) == TruthyNum(p.age) /\ Len(l) > 0

\* the effect on [profile, logs], run after a render in which setProfile or
\* setLogs stored a new object: fetchRecommendation calls
\* getDailyRecommendation(logs.slice(0, 5), profile.age, profile.condition)
RecEffect(p, l, reqs) ==
  IF RecGuard(p, l)
    THEN Append(reqs, [logs |-> Limit(l, RecSlice), age |-> p.age, condition |-> p.condition])
    ELSE reqs

\* JavaScript truthiness of analysisResult
Held(result) == result # Absent /\ result[1].truthy

\* the view the render selects: renderAnalysis while loading or holding a
\* truthy result, else the view of activeTab
ViewShown == IF loading \/ Held(analysisResult) THEN "analysis" ELSE activeTab

\* what renderAnalysis shows: the spinner while loading, else the result held
AnalysisContent ==
  IF loading THEN "spinner" ELSE IF Held(analysisResult) THEN "result" ELSE "nothing"

\* a view of a tab is a motion.div with an exit animation, which
\* <AnimatePresence mode="wait"> keeps mounted, as last rendered, until the
\* animation ends; renderAnalysis is a plain element and is replaced at once
Exiting == mountedView.view # ViewShown

\* the commit of a render: the mounted child is rendered anew when the render
\* selects it, replaced at once when it is renderAnalysis, and else kept as it
\* is for its exit animation
Render ==
  mountedView' = IF mountedView.view = ViewShown' \/ mountedView.view = "analysis"
                   THEN [view |-> ViewShown', profile |-> profile']
                   ELSE mountedView

\* the exit animation (duration 0.2) of the mounted view ends: the view the
\* render selects is mounted
ExitComplete ==
  /\ Exiting
  /\ mountedView' = [view |-> ViewShown, profile |-> profile]
  /\ UNCHANGED <<activeTab, profile, logs, recommendation, loading, analysisResult, alerts,
                 pressIgnored>>
  /\ UNCHANGED <<serverVars, httpVars, flightVars>>

\* the file input is an element of renderHome alone, so fileInputRef.current
\* is set exactly while a Home view is mounted
InputMounted == mountedView.view = "home"

(* --------------------------- user actions ----------------------------- *)

\* nav button "home": setActiveTab('home')
NavHome ==
  /\ activeTab' = "home"
  /\ UNCHANGED <<profile, logs, recommendation, loading, analysisResult, alerts>>
  /\ UNCHANGED <<serverVars, httpVars, flightVars>>
  /\ UNCHANGED pressIgnored
  /\ Render

\* nav button "history": setActiveTab('history')
NavHistory ==
  /\ activeTab' = "history"
  /\ UNCHANGED <<profile, logs, recommendation, loading, analysisResult, alerts>>
  /\ UNCHANGED <<serverVars, httpVars, flightVars>>
  /\ UNCHANGED pressIgnored
  /\ Render

\* nav button "my info": setActiveTab('profile')
NavProfile ==
  /\ activeTab' = "profile"
  /\ UNCHANGED <<profile, logs, recommendation, loading, analysisResult, alerts>>
  /\ UNCHANGED <<serverVars, httpVars, flightVars>>
  /\ UNCHANGED pressIgnored
  /\ Render

\* the home button in the header of renderAnalysis:
\* setAnalysisResult(null); setActiveTab('home')
AnalysisHome ==
  /\ mountedView.view = "analysis"
  /\ analysisResult' = Absent
  /\ activeTab' = "home"
  /\ UNCHANGED <<profile, logs, recommendation, loading, alerts>>
  /\ UNCHANGED <<serverVars, httpVars, flightVars>>
  /\ UNCHANGED pressIgnored
  /\ Render

\* the confirm button under the result of renderAnalysis, rendered when not
\* loading and a result is held: setActiveTab('home')
AnalysisConfirm ==
  /\ mountedView.view = "analysis"
  /\ ~loading
  /\ Held(analysisResult)
  /\ activeTab' = "home"
  /\ UNCHANGED <<profile, logs, recommendation, loading, analysisResult, alerts>>
  /\ UNCHANGED <<serverVars, httpVars, flightVars>>
  /\ UNCHANGED pressIgnored
  /\ Render

\* a decade button of renderProfile: setProfile({ ...profile, age })
SelectAge(age) ==
  /\ mountedView.view = "profile"
  /\ profile' = [mountedView.profile EXCEPT !.age = Some(age)]
  /\ recRequests' = RecEffect(profile', logs, recRequests)
  /\ Len(recRequests') <= MaxRecs
  /\ UNCHANGED <<activeTab, logs, recommendation, loading, analysisResult, alerts>>
  /\ UNCHANGED <<serverVars, httpVars, captures, nCaptures, nSaves, profileFetch,
                 logsFetches, profileSaves>>
  /\ UNCHANGED pressIgnored
  /\ Render

\* a condition button of renderProfile: setProfile({ ...profile, condition })
SelectCondition(condition) ==
  /\ mountedView.view = "profile"
  /\ profile' = [mountedView.profile EXCEPT !.condition = Some(condition)]
  /\ recRequests' = RecEffect(profile', logs, recRequests)
  /\ Len(recRequests') <= MaxRecs
  /\ UNCHANGED <<activeTab, logs, recommendation, loading, analysisResult, alerts>>
  /\ UNCHANGED <<serverVars, httpVars, captures, nCaptures, nSaves, profileFetch,
                 logsFetches, profileSaves>>
  /\ UNCHANGED pressIgnored
  /\ Render

\* submit of the profile form: handleProfileSave up to its await fetch
HandleProfileSave ==
  /\ mountedView.view = "profile"
  /\ nSaves < MaxProfileSaves
  /\ nSaves' = nSaves + 1
  /\ profileSaves' = Append(profileSaves, [pc |-> "req", body |-> <<mountedView.profile>>])
  /\ UNCHANGED <<serverVars, httpVars, uiVars>>
  /\ UNCHANGED <<captures, nCaptures, profileFetch, logsFetches, recRequests>>

\* the nav camera button pressed while no file input is mounted:
\* fileInputRef.current is null and
\* fileInputRef.current?.click() does nothing
CameraClickNoInput ==
  /\ ~InputMounted
  /\ pressIgnored' = TRUE
  /\ UNCHANGED <<activeTab, profile, logs, recommendation, loading, analysisResult, alerts,
                 mountedView>>
  /\ UNCHANGED <<serverVars, httpVars, flightVars>>

\* the closure of reader.onloadend: the file and the profile of the render that
\* ran handleImageUpload (storeAtStart is history: the table at that moment)
NewCapture(file) ==
  [pc |-> "reading", file |-> file,
   age |-> mountedView.profile.age, condition |-> mountedView.profile.condition,
   base64 |-> Absent, result |-> Absent, storeAtStart |-> food_logs, rowId |-> Absent,
   noText |-> FALSE]

\* a file chosen in the chooser of a file input that is mounted: the change
\* event runs the handleImageUpload of the mounted Home view, with the profile
\* of the render that view comes from, up to reader.readAsDataURL(file).
\* (A dismissed chooser returns at "if (!file) return".)
HandleImageUpload(file) ==
  /\ InputMounted
  /\ nCaptures < MaxCaptures
  /\ Len(captures) < MaxPending
  /\ IF ~TruthyNum(mountedView.profile.age) \/ ~TruthyStr(mountedView.profile.condition)
       THEN /\ alerts' = Append(alerts, AlertNeedProfile)
            /\ activeTab' = "profile"
            /\ nCaptures' = nCaptures + 1
            /\ UNCHANGED <<loading, analysisResult, captures>>
       ELSE /\ loading' = TRUE
            /\ analysisResult' = Absent
            /\ captures' = Append(captures, NewCapture(file))
            /\ UNCHANGED <<alerts, activeTab, nCaptures>>
  /\ pressIgnored' = FALSE
  /\ UNCHANGED <<profile, logs, recommendation>>
  /\ UNCHANGED <<serverVars, httpVars>>
  /\ UNCHANGED <<nSaves, profileFetch, logsFetches, profileSaves, recRequests>>
  /\ Render

(* ------------------- the capture after the file read ------------------ *)

\* the catch block without a finally block: setLoading(false) is never reached
CatchOnly(i) ==
  /\ alerts' = Append(alerts, AlertAnalysisError)
  /\ loading' = loading
  /\ captures' = Remove(captures, i)
  /\ nCaptures' = nCaptures + 1

\* catch (error) { alert(...) } finally { setLoading(false) } of reader.onloadend
CatchFinally(i) ==
  /\ alerts' = Append(alerts, AlertAnalysisError)
  /\ loading' = FALSE
  /\ captures' = Remove(captures, i)
  /\ nCaptures' = nCaptures + 1

\* reader.onloadend with the data URL: analyzeFoodImage sends its request
ReaderLoaded(i) ==
  /\ captures[i].pc = "reading"
  /\ captures' = [captures EXCEPT ![i].pc = "analyzing",
                                  ![i].base64 = Some(DataURL(captures[i].file))]
  /\ UNCHANGED <<serverVars, httpVars, uiVars>>
  /\ UNCHANGED <<nCaptures, nSaves, profileFetch, logsFetches, profileSaves, recRequests>>

\* reader.onloadend after a failed read: reader.result is null, so
\* base64Image.split throws inside analyzeFoodImage before any request
ReaderFailed(i) ==
  /\ captures[i].pc = "reading"
  /\ CatchFinally(i)
  /\ UNCHANGED <<activeTab, profile, logs, recommendation, analysisResult>>
  /\ UNCHANGED <<serverVars, httpVars>>
  /\ UNCHANGED <<nSaves, profileFetch, logsFetches, profileSaves, recRequests>>
  /\ UNCHANGED pressIgnored
  /\ Render

\* analyzeFoodImage returns JSON.parse(response.text || "{}"):
\* setAnalysisResult(result), then the POST /api/logs is sent
AnalyzeReturn(i, result) ==
  /\ captures[i].pc = "analyzing"
  /\ analysisResult' = Some(result)
  /\ captures' = [captures EXCEPT ![i].pc = "posting", ![i].result = Some(result)]
  /\ UNCHANGED <<activeTab, profile, logs, recommendation, loading, alerts>>
  /\ UNCHANGED <<serverVars, httpVars>>
  /\ UNCHANGED <<nCaptures, nSaves, profileFetch, logsFetches, profileSaves, recRequests>>
  /\ UNCHANGED pressIgnored
  /\ Render

\* analyzeFoodImage throws: the provider call fails, or response.text is not JSON
AnalyzeThrow(i) ==
  /\ captures[i].pc = "analyzing"
  /\ CatchFinally(i)
  /\ UNCHANGED <<activeTab, profile, logs, recommendation, analysisResult>>
  /\ UNCHANGED <<serverVars, httpVars>>
  /\ UNCHANGED <<nSaves, profileFetch, logsFetches, profileSaves, recRequests>>
  /\ UNCHANGED pressIgnored
  /\ Render

\* the provider's response carries no text (response.text undefined or ""):
\* analyzeFoodImage returns JSON.parse("{}"), and the capture goes on as with
\* a verdict: setAnalysisResult({}), then the POST /api/logs is sent
\* (noText is history: the advisory call gave nothing to parse)
AnalyzeReturnNoText(i) ==
  /\ captures[i].pc = "analyzing"
  /\ analysisResult' = Some(EmptyObjectVerdict)
  /\ captures' = [captures EXCEPT ![i].pc = "posting",
                                  ![i].result = Some(EmptyObjectVerdict),
                                  ![i].noText = TRUE]
  /\ UNCHANGED <<activeTab, profile, logs, recommendation, loading, alerts>>
  /\ UNCHANGED <<serverVars, httpVars>>
  /\ UNCHANGED <<nCaptures, nSaves, profileFetch, logsFetches, profileSaves, recRequests>>
  /\ UNCHANGED pressIgnored
  /\ Render

\* analyzeFoodImage returns null (the JSON text "null"): setAnalysisResult(null)
\* runs, then reading result.foodName for the body of the POST throws, and
\* the catch and finally blocks run
AnalyzeReturnNull(i) ==
  /\ captures[i].pc = "analyzing"
  /\ analysisResult' = Absent
  /\ CatchFinally(i)
  /\ UNCHANGED <<activeTab, profile, logs, recommendation>>
  /\ UNCHANGED <<serverVars, httpVars>>
  /\ UNCHANGED <<nSaves, profileFetch, logsFetches, profileSaves, recRequests>>
  /\ UNCHANGED pressIgnored
  /\ Render

\* the server handles the POST /api/logs of a capture
PostLogsServe(i, now) ==
  /\ captures[i].pc = "posting"
  /\ ~TooLarge(captures[i].file)
  /\ food_logs' = InsertLog(food_logs,
                            LogBody(captures[i].base64[1], captures[i].result[1]), now)
  /\ clock' = now
  /\ captures' = [captures EXCEPT ![i].pc = "posted", ![i].rowId = Some(NextLogId(food_logs))]
  /\ UNCHANGED <<user_profile, httpVars, uiVars>>
  /\ UNCHANGED <<nCaptures, nSaves, profileFetch, logsFetches, profileSaves, recRequests>>

\* the body parser answers the POST /api/logs of a capture with 413; the fetch
\* of the capture resolves with that response
PostLogsTooLarge(i) ==
  /\ captures[i].pc = "posting"
  /\ TooLarge(captures[i].file)
  /\ captures' = [captures EXCEPT ![i].pc = "posted"]
  /\ UNCHANGED <<serverVars, httpVars, uiVars>>
  /\ UNCHANGED <<nCaptures, nSaves, profileFetch, logsFetches, profileSaves, recRequests>>

\* the response of the POST arrives (res.ok is not looked at): fetchLogs() is
\* called (not awaited),
\* then finally { setLoading(false) }
PostLogsDone(i) ==
  /\ captures[i].pc = "posted"
  /\ logsFetches' = Append(logsFetches, NoFetch)
  /\ loading' = FALSE
  /\ captures' = Remove(captures, i)
  /\ nCaptures' = nCaptures + 1
  /\ UNCHANGED <<activeTab, profile, logs, recommendation, analysisResult, alerts>>
  /\ UNCHANGED <<serverVars, httpVars>>
  /\ UNCHANGED <<nSaves, profileFetch, profileSaves, recRequests>>
  /\ UNCHANGED pressIgnored
  /\ Render

\* the fetch of the POST rejects: the request does not reach the server, or
\* the connection is lost after the server has handled it
PostLogsFail(i) ==
  /\ captures[i].pc \in {"posting", "posted"}
  /\ CatchFinally(i)
  /\ UNCHANGED <<activeTab, profile, logs, recommendation, analysisResult>>
  /\ UNCHANGED <<serverVars, httpVars>>
  /\ UNCHANGED <<nSaves, profileFetch, logsFetches, profileSaves, recRequests>>
  /\ UNCHANGED pressIgnored
  /\ Render

(* --------------------- fetches and the profile save -------------------- *)

\* the server handles the GET /api/profile of fetchProfile
FetchProfileServe ==
  /\ profileFetch.pc = "req"
  /\ profileFetch' = [pc |-> "resp", data |-> <<GetProfile(user_profile)>>]
  /\ UNCHANGED <<serverVars, httpVars, uiVars>>
  /\ UNCHANGED <<captures, nCaptures, nSaves, logsFetches, profileSaves, recRequests>>

\* fetchProfile resumes: setProfile(data), and the effect on [profile, logs]
FetchProfileDone ==
  /\ profileFetch.pc = "resp"
  /\ profile' = profileFetch.data[1]
  /\ profileFetch' = [pc |-> "done", data |-> <<>>]
  /\ recRequests' = RecEffect(profile', logs, recRequests)
  /\ Len(recRequests') <= MaxRecs
  /\ UNCHANGED <<activeTab, logs, recommendation, loading, analysisResult, alerts>>
  /\ UNCHANGED <<serverVars, httpVars>>
  /\ UNCHANGED <<captures, nCaptures, nSaves, logsFetches, profileSaves>>
  /\ UNCHANGED pressIgnored
  /\ Render

\* the server handles the GET /api/logs of a fetchLogs
FetchLogsServe(i) ==
  /\ logsFetches[i].pc = "req"
  /\ logsFetches' = [logsFetches EXCEPT ![i] =
                       [pc |-> "resp", data |-> <<SelectRecentLogs(food_logs)>>]]
  /\ UNCHANGED <<serverVars, httpVars, uiVars>>
  /\ UNCHANGED <<captures, nCaptures, nSaves, profileFetch, profileSaves, recRequests>>

\* fetchLogs resumes: setLogs(data), and the effect on [profile, logs]
FetchLogsDone(i) ==
  /\ logsFetches[i].pc = "resp"
  /\ logs' = logsFetches[i].data[1]
  /\ logsFetches' = Remove(logsFetches, i)
  /\ recRequests' = RecEffect(profile, logs', recRequests)
  /\ Len(recRequests') <= MaxRecs
  /\ UNCHANGED <<activeTab, profile, recommendation, loading, analysisResult, alerts>>
  /\ UNCHANGED <<serverVars, httpVars>>
  /\ UNCHANGED <<captures, nCaptures, nSaves, profileFetch, profileSaves>>
  /\ UNCHANGED pressIgnored
  /\ Render

\* the server handles the POST /api/profile of a handleProfileSave
ProfileSaveServe(i) ==
  /\ profileSaves[i].pc = "req"
  /\ user_profile' = UpsertProfile(user_profile, profileSaves[i].body[1].age,
                                   profileSaves[i].body[1].condition)
  /\ profileSaves' = [profileSaves EXCEPT ![i] = [pc |-> "resp", body |-> <<>>]]
  /\ UNCHANGED <<food_logs, clock, httpVars, uiVars>>
  /\ UNCHANGED <<captures, nCaptures, nSaves, profileFetch, logsFetches, recRequests>>

\* handleProfileSave resumes after its await: setActiveTab('home')
ProfileSaveDone(i) ==
  /\ profileSaves[i].pc = "resp"
  /\ activeTab' = "home"
  /\ profileSaves' = Remove(profileSaves, i)
  /\ UNCHANGED <<profile, logs, recommendation, loading, analysisResult, alerts>>
  /\ UNCHANGED <<serverVars, httpVars>>
  /\ UNCHANGED <<captures, nCaptures, nSaves, profileFetch, logsFetches, recRequests>>
  /\ UNCHANGED pressIgnored
  /\ Render

(* ----------------------- the daily recommendation --------------------- *)

\* the text the provider writes for a request
Advice(request) == Some(request)

\* getDailyRecommendation returns {recommendation}: setRecommendation(...)
RecReturn(i) ==
  /\ recommendation' = Advice(recRequests[i])
  /\ recRequests' = Remove(recRequests, i)
  /\ UNCHANGED <<activeTab, profile, logs, loading, analysisResult, alerts>>
  /\ UNCHANGED <<serverVars, httpVars>>
  /\ UNCHANGED <<captures, nCaptures, nSaves, profileFetch, logsFetches, profileSaves>>
  /\ UNCHANGED pressIgnored
  /\ Render

\* getDailyRecommendation returns an object without the field ("{}"):
\* setRecommendation(undefined)
RecReturnEmpty(i) ==
  /\ recommendation' = Absent
  /\ recRequests' = Remove(recRequests, i)
  /\ UNCHANGED <<activeTab, profile, logs, loading, analysisResult, alerts>>
  /\ UNCHANGED <<serverVars, httpVars>>
  /\ UNCHANGED <<captures, nCaptures, nSaves, profileFetch, logsFetches, profileSaves>>
  /\ UNCHANGED pressIgnored
  /\ Render

\* fetchRecommendation with the catch block of handleImageUpload: alert(...)
RecThrowAlert(i) ==
  /\ recRequests' = Remove(recRequests, i)
  /\ alerts' = Append(alerts, AlertAnalysisError)
  /\ UNCHANGED <<activeTab, profile, logs, recommendation, loading, analysisResult>>
  /\ UNCHANGED <<serverVars, httpVars, pressIgnored>>
  /\ UNCHANGED <<captures, nCaptures, nSaves, profileFetch, logsFetches, profileSaves>>
  /\ Render

\* getDailyRecommendation throws: catch (e) { console.error(e) }
RecThrow(i) ==
  /\ recRequests' = Remove(recRequests, i)
  /\ UNCHANGED <<serverVars, httpVars, uiVars>>
  /\ UNCHANGED <<captures, nCaptures, nSaves, profileFetch, logsFetches, profileSaves>>

(* --------------------------- the application -------------------------- *)

\* the photos and the provider answers of the whole-application specification
AppFiles == {"meal1"}

AppVerdicts == { Verdict(Some("rice"), Some(TRUE), Some("fine"), Some("chew")) }

\* the application, its server and the provider, with one capture and one
\* getDailyRecommendation call pending at a time and a provider that answers
\* with a well-formed verdict or fails
Next ==
  \/ NavHome
  \/ NavHistory
  \/ NavProfile
  \/ AnalysisHome
  \/ AnalysisConfirm
  \/ ExitComplete
  \/ \E age \in Ages : SelectAge(age) /\ Len(recRequests') <= AppRecs
  \/ \E condition \in Conditions : SelectCondition(condition) /\ Len(recRequests') <= AppRecs
  \/ HandleProfileSave
  \/ CameraClickNoInput
  \/ \E file \in AppFiles : Len(captures) < AppPending /\ HandleImageUpload(file)
  \/ \E i \in DOMAIN captures : ReaderLoaded(i)
  \/ \E i \in DOMAIN captures : ReaderFailed(i)
  \/ \E i \in DOMAIN captures, result \in AppVerdicts : AnalyzeReturn(i, result)
  \/ \E i \in DOMAIN captures : AnalyzeThrow(i)
  \/ \E i \in DOMAIN captures : AnalyzeReturnNull(i)
  \/ \E i \in DOMAIN captures, now \in Now : PostLogsServe(i, now)
  \/ \E i \in DOMAIN captures : PostLogsDone(i)
  \/ \E i \in DOMAIN captures : PostLogsFail(i)
  \/ FetchProfileServe
  \/ FetchProfileDone /\ Len(recRequests') <= AppRecs
  \/ \E i \in DOMAIN logsFetches : FetchLogsServe(i)
  \/ \E i \in DOMAIN logsFetches : FetchLogsDone(i) /\ Len(recRequests') <= AppRecs
  \/ \E i \in DOMAIN profileSaves : ProfileSaveServe(i)
  \/ \E i \in DOMAIN profileSaves : ProfileSaveDone(i)
  \/ \E i \in DOMAIN recRequests : RecReturn(i)
  \/ \E i \in DOMAIN recRequests : RecReturnEmpty(i)
  \/ \E i \in DOMAIN recRequests : RecThrow(i)

Spec == Init /\ [][Next]_vars

\* the profile form, the fetches and the daily recommendation, with
\* overlapping getDailyRecommendation calls
NextRec ==
  \/ NavHome
  \/ NavHistory
  \/ NavProfile
  \/ ExitComplete
  \/ \E age \in Ages : SelectAge(age)
  \/ \E condition \in Conditions : SelectCondition(condition)
  \/ HandleProfileSave
  \/ FetchProfileServe
  \/ FetchProfileDone
  \/ \E i \in DOMAIN logsFetches : FetchLogsServe(i)
  \/ \E i \in DOMAIN logsFetches : FetchLogsDone(i)
  \/ \E i \in DOMAIN profileSaves : ProfileSaveServe(i)
  \/ \E i \in DOMAIN profileSaves : ProfileSaveDone(i)
  \/ \E i \in DOMAIN recRequests : RecReturn(i)
  \/ \E i \in DOMAIN recRequests : RecReturnEmpty(i)
  \/ \E i \in DOMAIN recRequests : RecThrow(i)

SpecRec == Init /\ [][NextRec]_vars

\* a pending capture moves on: the file read, the advisory call or the log
\* write completes or fails, and the code after the await runs
CaptureStep ==
  \E i \in DOMAIN captures :
    \/ ReaderLoaded(i)
    \/ ReaderFailed(i)
    \/ \E result \in ProviderVerdicts : AnalyzeReturn(i, result)
    \/ AnalyzeThrow(i)
    \/ AnalyzeReturnNull(i)
    \/ AnalyzeReturnNoText(i)
    \/ \E now \in Now : PostLogsServe(i, now)
    \/ PostLogsTooLarge(i)
    \/ PostLogsDone(i)
    \/ PostLogsFail(i)

NextCapture ==
  \/ NavHome
  \/ NavHistory
  \/ NavProfile
  \/ AnalysisHome
  \/ AnalysisConfirm
  \/ ExitComplete
  \/ CameraClickNoInput
  \/ \E file \in Files : HandleImageUpload(file)
  \/ \E i \in DOMAIN captures : ReaderLoaded(i)
  \/ \E i \in DOMAIN captures : ReaderFailed(i)
  \/ \E i \in DOMAIN captures, result \in ProviderVerdicts : AnalyzeReturn(i, result)
  \/ \E i \in DOMAIN captures : AnalyzeThrow(i)
  \/ \E i \in DOMAIN captures : AnalyzeReturnNoText(i)
  \/ \E i \in DOMAIN captures : AnalyzeReturnNull(i)
  \/ \E i \in DOMAIN captures, now \in Now : PostLogsServe(i, now)
  \/ \E i \in DOMAIN captures : PostLogsTooLarge(i)
  \/ \E i \in DOMAIN captures : PostLogsDone(i)
  \/ \E i \in DOMAIN captures : PostLogsFail(i)
  \/ FetchProfileServe
  \/ FetchProfileDone

\* the capture flow, with overlapping captures and every await of a capture
\* settling in the end: the
\* FileReader fires onloadend, and the promises of analyzeFoodImage and of the
\* fetch of POST /api/logs resolve or reject
SpecCapture == Init /\ [][NextCapture]_vars /\ WF_vars(CaptureStep)

(* ----------------------- claims on the two stores --------------------- *)

LastSaved == saved[Len(saved)]

\* C1: before the first POST /api/profile the profile table is empty and
\* GET /api/profile answers the empty object; after one or more saves the table
\* holds exactly one row, with the age and condition of the latest save (so a
\* save that repeats the latest input leaves the table as it is), and that row
\* is what GET /api/profile answers.
C1_ProfileSingleton ==
  /\ saved = <<>> =>
       /\ user_profile = {}
       /\ GetProfile(user_profile) = EmptyObject
  /\ saved # <<>> =>
       /\ user_profile = {ProfileRow(LastSaved.age, LastSaved.condition)}
       /\ GetProfile(user_profile) = ProfileRow(LastSaved.age, LastSaved.condition)
  /\ lastResponse.op = "getProfile" => lastResponse.body = GetProfile(user_profile)

\* three saves, the second overwriting other values and the third repeating
\* the second, then a read
C1_Witness ==
  /\ Len(saved) = 3
  /\ saved[1].age # saved[2].age
  /\ saved[1].condition # saved[2].condition
  /\ saved[2] = saved[3]
  /\ lastResponse.op = "getProfile"

\* C2: the answer of GET /api/logs has at most 50 entries, they are the most
\* recently inserted rows, and they come newest first: the k-th entry is the
\* k-th newest row of the table.
C2_RecentNewestFirst ==
  lastResponse.op = "getLogs" =>
    LET resp == lastResponse.body
        n == Len(food_logs)
    IN /\ Len(resp) <= LogLimit
       /\ Len(resp) = (IF n <= LogLimit THEN n ELSE LogLimit)
       /\ \A k \in 1..Len(resp) : resp[k] = food_logs[n + 1 - k]

(* ----------------------- claims on the application -------------------- *)

\* C3: a handled POST /api/logs makes the table one row longer, and no step of
\* the application changes or removes a row that is stored: the table of
\* before the step is a prefix of the table after it, field by field.
C3_AppendOnly ==
  [][ /\ (\E i \in DOMAIN captures, now \in Now : PostLogsServe(i, now))
           => Len(food_logs') = Len(food_logs) + 1
      /\ Len(food_logs') >= Len(food_logs)
      /\ \A k \in 1..Len(food_logs) : food_logs'[k] = food_logs[k] ]_vars

\* the POST of a capture has been handled on a table that held a row
C3_Witness ==
  /\ Len(food_logs) = 2
  /\ food_logs[1] \in {r[1] : r \in EarlierLogs \ {<<>>}}
  /\ \E i \in DOMAIN captures : captures[i].pc = "posted"

\* a capture ends: its finally block has run
CaptureEnds(i) == captures' = Remove(captures, i)

\* C4: a capture whose provider answer parses as JSON but lacks a required
\* field ends with the failure alert and without a row of its own in the
\* table.
C4_MalformedNotPersisted ==
  [][ \A i \in DOMAIN captures :
        ( /\ captures[i].result # Absent
          /\ ~IsWellFormed(captures[i].result[1])
          /\ CaptureEnds(i) )
        => /\ alerts' = Append(alerts, AlertAnalysisError)
           /\ captures[i].rowId = Absent
           /\ food_logs' = food_logs ]_vars

\* the advisory call or the log write of the capture is pending
AnalysisInFlight(c) == c.pc \in {"analyzing", "posting", "posted"}

\* C5: no two captures have their advisory call or log write pending
\* together.
C5_OneAnalysisInFlight ==
  \A i, j \in DOMAIN captures :
    (AnalysisInFlight(captures[i]) /\ AnalysisInFlight(captures[j])) => i = j

ProfileIncomplete == ~TruthyNum(profile.age) \/ ~TruthyStr(profile.condition)

\* a capture attempt: the camera button pressed, whether the press finds no
\* file input or opens the chooser and a file is picked
CaptureAttempt ==
  \/ CameraClickNoInput /\ ~pressIgnored
  \/ \E file \in Files : HandleImageUpload(file)

\* C6: a capture attempted while the profile lacks an age or a condition
\* starts no capture (so no advisory call), writes no log row, and the view
\* rendered after it is the profile form.
C6_CaptureNeedsProfile ==
  [][ (CaptureAttempt /\ ProfileIncomplete)
      => /\ captures' = captures
         /\ food_logs' = food_logs
         /\ ViewShown' = "profile" ]_vars

\* C7: every getDailyRecommendation call is made with at least one log entry
\* and a set age.
C7_RecommendationNeedsLogAndAge ==
  \A k \in DOMAIN recRequests :
    /\ Len(recRequests[k].logs) >= 1
    /\ TruthyNum(recRequests[k].age)

\* a recommendation call is in flight
C7_Witness ==
  /\ recRequests # <<>>
  /\ Len(logs) >= 1
  /\ TruthyNum(profile.age)

\* the catch and finally blocks run for a capture whose image read or
\* advisory call failed
AdvisoryFailureHandled(i) ==
  /\ captures[i].pc \in {"reading", "analyzing"}
  /\ captures' = Remove(captures, i)
  /\ alerts' = Append(alerts, AlertAnalysisError)
  /\ loading' = FALSE

\* the handling of a capture whose advisory call failed ends: the image was
\* unreadable, the provider call failed or its text was not JSON (the catch
\* and finally blocks run), or the response had no text to parse
AdvisoryCallFailed(i) ==
  \/ AdvisoryFailureHandled(i)
  \/ captures[i].noText /\ CaptureEnds(i)

\* C8: when the handling of a capture whose advisory call failed ends, the
\* capture has no row of its own in the table, and the table is the table of
\* the moment the capture began.
C8_FailureWritesNoLog ==
  [][ \A i \in DOMAIN captures :
        AdvisoryCallFailed(i)
        => /\ captures[i].rowId = Absent
           /\ food_logs' = captures[i].storeAtStart ]_vars

\* C9: after the failure of a capture's advisory call is handled, the view
\* rendered is Home.
C9_FailureReturnsHome ==
  [][ \A i \in DOMAIN captures :
        AdvisoryFailureHandled(i) => ViewShown' = "home" ]_vars

\* C10: the confirm button under the analysis result makes Home the view
\* rendered next.
C10_ConfirmShowsHome ==
  [][ AnalysisConfirm => ViewShown' = "home" ]_vars

\* C11: the nav button "history" makes History the view rendered next, and the
\* nav button "my info" makes the profile form the view rendered next, whatever
\* view is rendered when the button is pressed.
C11_NavShowsTab ==
  [][ /\ NavHistory => ViewShown' = "history"
      /\ NavProfile => ViewShown' = "profile" ]_vars

\* C12: while the image read or the advisory call of a capture is pending,
\* loading is set and the render selects the spinner of renderAnalysis, not a
\* result and not a tab.
C12_LoadingWhileAnalyzing ==
  \A i \in DOMAIN captures :
    captures[i].pc \in {"reading", "analyzing"}
    => /\ loading
       /\ ViewShown = "analysis"
       /\ AnalysisContent = "spinner"

\* C13: when the server handles the POST /api/logs of a capture whose verdict
\* carries all four fields, the row it inserts has the verdict's foodName as
\* food_name, is_safe 1 exactly when isSafe is true (else 0), the data URL of
\* the photographed file as image_url, and as analysis the verdict's analysis
\* followed by the tip line.
C13_VerdictPersisted ==
  [][ \A i \in DOMAIN captures, now \in Now :
        (PostLogsServe(i, now) /\ IsWellFormed(captures[i].result[1]))
        => LET v == captures[i].result[1]
               row == food_logs'[Len(food_logs')]
           IN /\ Len(food_logs') = Len(food_logs) + 1
              /\ row.food_name = v.foodName
              /\ row.is_safe \in {0, 1}
              /\ (row.is_safe = 1) <=> (v.isSafe = Some(TRUE))
              /\ row.image_url = Some(DataURL(captures[i].file))
              /\ row.analysis = Some(v.analysis[1] \o "\n\nTip: " \o v.tips[1]) ]_vars

\* the row of a capture whose verdict says "not safe" has been inserted after
\* the row of an earlier session
C13_Witness ==
  /\ Len(captures) = 1
  /\ captures[1].pc = "posted"
  /\ captures[1].result = Some(Verdict(Some("rice"), Some(FALSE), Some("fine"), Some("chew")))
  /\ Len(food_logs) = 2
  /\ food_logs[2].is_safe = 0
  /\ food_logs[2].food_name = Some("rice")

\* C14: a capture that ends after its advisory call returned a verdict has
\* exactly one row of its own in the table, and a capture that ends without a
\* verdict has none: the rows added are as many as the verdicts returned.
C14_OneLogPerAnalysis ==
  [][ \A i \in DOMAIN captures :
        CaptureEnds(i)
        => /\ captures[i].result # Absent <=> captures[i].rowId # Absent
           /\ captures[i].rowId # Absent
                => \E k \in DOMAIN food_logs' : food_logs'[k].id = captures[i].rowId[1] ]_vars

\* C15: after every step of the store the ids of the rows are strictly
\* increasing in insertion order (so they are unique and a row appended later
\* has a greater id than every row appended before it), and every row that was
\* stored before the step still has the id and the created_at it had.
C15_IdsMonotonic ==
  [][ /\ \A j, k \in DOMAIN food_logs' : j < k => food_logs'[j].id < food_logs'[k].id
      /\ Len(food_logs') >= Len(food_logs)
      /\ \A k \in DOMAIN food_logs :
           /\ food_logs'[k].id = food_logs[k].id
           /\ food_logs'[k].created_at = food_logs[k].created_at ]_vars

\* three appends, the first two within one second and the third in the next
C15_Witness ==
  /\ Len(food_logs) = 3
  /\ food_logs[1].created_at = food_logs[2].created_at
  /\ food_logs[3].created_at > food_logs[2].created_at
  /\ food_logs[3].id = 3

\* a getDailyRecommendation call ends without an advice text: it throws
\* (provider error, answer that is not JSON) or answers without the field
RecFails(i) == RecThrow(i) \/ RecReturnEmpty(i)

\* C16: a getDailyRecommendation call that fails raises no alert, leaves the
\* tab, the view rendered, loading, the result held, the client's logs and
\* profile and both tables as they are, and the advice displayed after it is
\* the one displayed before or none, not a text of the failed call.
C16_RecFailureSilent ==
  [][ \A i \in DOMAIN recRequests :
        RecFails(i)
        => /\ alerts' = alerts
           /\ activeTab' = activeTab
           /\ ViewShown' = ViewShown
           /\ loading' = loading
           /\ analysisResult' = analysisResult
           /\ logs' = logs
           /\ profile' = profile
           /\ user_profile' = user_profile
           /\ food_logs' = food_logs
           /\ recommendation' \in {recommendation, Absent} ]_vars

\* the effect's condition holds and its call has ended, no advice is
\* displayed and no alert was raised
C16_Witness ==
  /\ RecGuard(profile, logs)
  /\ recRequests = <<>>
  /\ recommendation = Absent
  /\ alerts = <<>>

\* the request fetchRecommendation builds from the profile and logs the client
\* holds now; while the effect's condition holds it is the request issued last,
\* as every setProfile and setLogs runs the effect
CurrentRequest ==
  [logs |-> Limit(logs, RecSlice), age |-> profile.age, condition |-> profile.condition]

\* C17: with no getDailyRecommendation call in flight, an advice on display
\* and the effect's condition true, the advice displayed is the answer to the
\* request issued last.
C17_LatestRecommendationShown ==
  (recRequests = <<>> /\ recommendation # Absent /\ RecGuard(profile, logs))
  => recommendation = Advice(CurrentRequest)

\* C18: with no capture pending loading is false, and a capture that set
\* loading is followed by a state with no capture pending and loading false,
\* whether it ended in the try block or in the catch block.
C18_LoadingEnds ==
  /\ [](captures = <<>> => ~loading)
  /\ (captures # <<>> /\ loading) ~> (captures = <<>> /\ ~loading)

\* a capture has ended on the failure path of the log write: its verdict is
\* held, the alert was raised and loading is false
C18_Witness ==
  /\ nCaptures = 1
  /\ captures = <<>>
  /\ analysisResult # Absent
  /\ alerts = <<AlertAnalysisError>>
  /\ ~loading

====
